---- MODULE Spec2Model ----
(***************************************************************************)
(* Lequel? language identification based on trigrams (src/Lequel.cpp).     *)
(*                                                                         *)
(* A std::string is a sequence of bytes (0..255), a std::wstring a         *)
(* sequence of UTF-16 code units, a TrigramProfile a function from keys    *)
(* (byte strings) to weights.  A float is a fixed-point number: the        *)
(* integer x stands for the value x / Scale, and every arithmetic          *)
(* operation rounds its result to that resolution, as a float operation    *)
(* rounds to the nearest representable value.                              *)
(***************************************************************************)
EXTENDS Integers, Sequences, FiniteSets, TLC

VARIABLES
    text,           \* const Text& text: the lines handed to the function
    languages,      \* LanguageProfiles& languages: the catalog
    pc,             \* position of the running call
    lineIdx,        \* number of lines of text already consumed by a loop
    profile,        \* trigProfReturn / trig_prof / the profile being normalized
    other,          \* languageProfile argument of getCosineSimilarity
    profile0,       \* value of profile when the call started (history)
    other0,         \* value of other when the call started (history)
    stdout,         \* what has been written to std::cout
    langIdx,        \* number of catalog entries already visited
    max,            \* float max of identifyLanguage
    lan_identified, \* std::string lan_identified
    scored,         \* indices of the catalog entries that were scored (history)
    result,         \* return value of the call
    n,              \* int n of hasLessThanNChars
    total,          \* size_t total of hasLessThanNChars
    calls           \* number of calls of normalizeTrigramProfile made so far

vars == <<text, languages, pc, lineIdx, profile, other, profile0, other0,
          stdout, langIdx, max, lan_identified, scored, result, n, total, calls>>

----------------------------------------------------------------------------
(* Bounds of the model *)

MaxLineLen == 3     \* code points per line
MaxLines == 2       \* lines per text
IdMaxLines == 1     \* lines per text handed to identifyLanguage
MaxLangs == 2       \* entries per catalog
MaxCount == 2       \* largest count/weight (in units of 1.0) of a hand-made profile
MaxN == 4           \* largest n handed to hasLessThanNChars
MaxCalls == 2       \* successive calls of normalizeTrigramProfile
Scale == 1000       \* fixed-point resolution: 1.0f is Scale

----------------------------------------------------------------------------
(* Generic helpers *)

SeqsUpTo(S, k) == UNION {[1..m -> S] : m \in 0..k}

RECURSIVE Flatten(_)
Flatten(ss) == IF ss = <<>> THEN <<>> ELSE Head(ss) \o Flatten(Tail(ss))

RECURSIVE SumOver(_, _)
SumOver(f, S) ==
    IF S = {} THEN 0
    ELSE LET x == CHOOSE y \in S : TRUE IN f[x] + SumOver(f, S \ {x})

EmptyProfile == <<>>

\* byte-wise lexicographic order of std::string (the order of std::map keys)
RECURSIVE LexLess(_, _)
LexLess(a, b) ==
    IF b = <<>> THEN FALSE
    ELSE IF a = <<>> THEN TRUE
    ELSE IF Head(a) # Head(b) THEN Head(a) < Head(b)
    ELSE LexLess(Tail(a), Tail(b))

RECURSIVE SortedKeys(_)
SortedKeys(S) ==
    IF S = {} THEN <<>>
    ELSE LET m == CHOOSE x \in S : \A y \in S : y = x \/ LexLess(x, y)
         IN  <<m>> \o SortedKeys(S \ {m})

----------------------------------------------------------------------------
(* float arithmetic at resolution 1/Scale *)

One == Scale

RoundDiv(a, b) == (2 * a + b) \div (2 * b)

FMul(a, b) == RoundDiv(a * b, Scale)

FDiv(a, b) == RoundDiv(a * Scale, b)

\* the largest r in lo..hi with r * r <= x
RECURSIVE SqrtBetween(_, _, _)
SqrtBetween(x, lo, hi) ==
    IF lo >= hi THEN lo
    ELSE LET mid == (lo + hi + 1) \div 2 IN
         IF mid * mid <= x THEN SqrtBetween(x, mid, hi)
         ELSE SqrtBetween(x, lo, mid - 1)

ISqrt(x) == SqrtBetween(x, 0, IF x < 46340 THEN x ELSE 46340)

\* sqrtf: the square root, rounded to the nearest representable value
FSqrt(a) ==
    LET x == a * Scale
        r == ISqrt(x)
    IN  IF x - r * r > r THEN r + 1 ELSE r

----------------------------------------------------------------------------
(* UTF-8 and UTF-16, as wstring_convert<codecvt_utf8_utf16<wchar_t>> does  *)

CR == 13

Utf8Encode(cp) ==
    IF cp < 128 THEN <<cp>>
    ELSE IF cp < 2048 THEN <<192 + (cp \div 64), 128 + (cp % 64)>>
    ELSE IF cp < 65536 THEN
        <<224 + (cp \div 4096), 128 + ((cp \div 64) % 64), 128 + (cp % 64)>>
    ELSE <<240 + (cp \div 262144), 128 + ((cp \div 4096) % 64),
           128 + ((cp \div 64) % 64), 128 + (cp % 64)>>

\* number of bytes of the UTF-8 sequence that starts with lead byte b
Utf8Width(b) == IF b < 128 THEN 1 ELSE IF b < 224 THEN 2 ELSE IF b < 240 THEN 3 ELSE 4

Utf8DecodeOne(bs) ==
    LET w == Utf8Width(bs[1]) IN
    IF w = 1 THEN bs[1]
    ELSE IF w = 2 THEN (bs[1] - 192) * 64 + (bs[2] - 128)
    ELSE IF w = 3 THEN (bs[1] - 224) * 4096 + (bs[2] - 128) * 64 + (bs[3] - 128)
    ELSE (bs[1] - 240) * 262144 + (bs[2] - 128) * 4096 + (bs[3] - 128) * 64 + (bs[4] - 128)

IsHigh(u) == 55296 <= u /\ u < 56320
IsLow(u) == 56320 <= u /\ u < 57344

Utf16Encode(cp) ==
    IF cp < 65536 THEN <<cp>>
    ELSE <<55296 + ((cp - 65536) \div 1024), 56320 + ((cp - 65536) % 1024)>>

\* converter.from_bytes(line): well-formed UTF-8 to UTF-16 code units
RECURSIVE from_bytes(_)
from_bytes(bs) ==
    IF bs = <<>> THEN <<>>
    ELSE LET w == Utf8Width(bs[1]) IN
         Utf16Encode(Utf8DecodeOne(SubSeq(bs, 1, w)))
            \o from_bytes(SubSeq(bs, w + 1, Len(bs)))

\* the conversion of a UTF-16 window fails: a low surrogate that follows no
\* high surrogate, or a high surrogate followed by something else
RECURSIVE Utf16Error(_)
Utf16Error(us) ==
    IF us = <<>> THEN FALSE
    ELSE IF IsLow(us[1]) THEN TRUE
    ELSE IF IsHigh(us[1]) THEN
        IF Len(us) = 1 THEN FALSE
        ELSE IF IsLow(us[2]) THEN Utf16Error(SubSeq(us, 3, Len(us)))
        ELSE TRUE
    ELSE Utf16Error(Tail(us))

\* UTF-16 to UTF-8 of the complete characters of a window without error
RECURSIVE Utf16ToUtf8(_)
Utf16ToUtf8(us) ==
    IF us = <<>> THEN <<>>
    ELSE IF IsHigh(us[1]) THEN
        IF Len(us) = 1 THEN <<>>
        ELSE Utf8Encode(65536 + (us[1] - 55296) * 1024 + (us[2] - 56320))
                \o Utf16ToUtf8(SubSeq(us, 3, Len(us)))
    ELSE Utf8Encode(us[1]) \o Utf16ToUtf8(Tail(us))

\* converter.to_bytes(wtri) throws std::range_error: the conversion reports
\* an error and the converter was constructed without an error string
ToBytesThrows(us) == Utf16Error(us)

\* converter.to_bytes(wtri) when it returns: the conversion of the complete
\* characters of the window (a high surrogate at its end is left out)
to_bytes(us) == Utf16ToUtf8(us)

----------------------------------------------------------------------------
(* Inputs *)

\* 'a', e-acute (two bytes of UTF-8), carriage return, U+1F600 (outside the BMP)
Alphabet == {97, 233, CR, 128512}

\* the part of the alphabet the identification runs are fed
IdAlphabet == {97, 128512}

EncodeLine(cps) == Flatten([i \in 1..Len(cps) |-> Utf8Encode(cps[i])])

LinesOver(A) == {EncodeLine(cps) : cps \in SeqsUpTo(A, MaxLineLen)}

TextsOver(A) == SeqsUpTo(LinesOver(A), MaxLines)

\* the code points of a well-formed UTF-8 string
RECURSIVE Utf8Decode(_)
Utf8Decode(bs) ==
    IF bs = <<>> THEN <<>>
    ELSE LET w == Utf8Width(bs[1]) IN
         <<Utf8DecodeOne(SubSeq(bs, 1, w))>> \o Utf8Decode(SubSeq(bs, w + 1, Len(bs)))

----------------------------------------------------------------------------
(* buildTrigramProfile *)

\* lines 36-37: one trailing CR is removed from the copy of the line
StripCR(line) ==
    IF line # <<>> /\ line[Len(line)] = CR THEN SubSeq(line, 1, Len(line) - 1)
    ELSE line

\* lines 39-47: the line is skipped
SkipLine(line) ==
    \/ StripCR(line) = <<>>
    \/ Len(from_bytes(StripCR(line))) < 3

\* line 52: the values of i (counted from 1) for which the loop body runs
WindowStarts(wline) == {i \in 1..Len(wline) : i + 2 <= Len(wline)}

\* line 54: wline.substr(i, 3)
Window(wline, i) == SubSeq(wline, i, i + 2)

\* line 59: trigProfReturn[tri] += 1.0f
Increment(p, tri) ==
    IF tri \in DOMAIN p THEN [p EXCEPT ![tri] = @ + One]
    ELSE (tri :> One) @@ p

\* lines 52-72: the sliding window over one line, from position i on
RECURSIVE AddTrigrams(_, _, _)
AddTrigrams(p, wline, i) ==
    IF i \notin WindowStarts(wline) THEN p
    ELSE AddTrigrams(Increment(p, to_bytes(Window(wline, i))), wline, i + 1)

\* to_bytes throws on some window of the line
LineThrows(wline) ==
    \E i \in WindowStarts(wline) : ToBytesThrows(Window(wline, i))

\* lines 73-76: every key of the accumulated profile goes to std::cout
DumpKeys(p) == SortedKeys(DOMAIN p)

BuildUnchanged ==
    UNCHANGED <<text, languages, other, profile0, other0, langIdx, max,
                lan_identified, scored, result, n, total, calls>>

\* one iteration of the loop of line 33 that ends in a continue
BuildSkipLine ==
    /\ pc = "build"
    /\ lineIdx < Len(text)
    /\ SkipLine(text[lineIdx + 1])
    /\ lineIdx' = lineIdx + 1
    /\ UNCHANGED <<pc, profile, stdout>>
    /\ BuildUnchanged

\* one full iteration of the loop of line 33
BuildLine ==
    /\ pc = "build"
    /\ lineIdx < Len(text)
    /\ ~SkipLine(text[lineIdx + 1])
    /\ LET wline == from_bytes(StripCR(text[lineIdx + 1])) IN
        /\ ~LineThrows(wline)
        /\ profile' = AddTrigrams(profile, wline, 1)
        /\ stdout' = stdout \o DumpKeys(profile')
    /\ lineIdx' = lineIdx + 1
    /\ UNCHANGED pc
    /\ BuildUnchanged

\* an iteration in which to_bytes throws std::range_error: the exception
\* leaves buildTrigramProfile and its caller
BuildThrow ==
    /\ pc = "build"
    /\ lineIdx < Len(text)
    /\ ~SkipLine(text[lineIdx + 1])
    /\ LineThrows(from_bytes(StripCR(text[lineIdx + 1])))
    /\ pc' = "threw"
    /\ UNCHANGED <<lineIdx, profile, stdout>>
    /\ BuildUnchanged

\* line 79: return trigProfReturn
BuildReturn ==
    /\ pc = "build"
    /\ lineIdx = Len(text)
    /\ pc' = "built"
    /\ UNCHANGED <<lineIdx, profile, stdout>>
    /\ BuildUnchanged

InitCommon ==
    /\ lineIdx = 0
    /\ profile0 = profile
    /\ other0 = other
    /\ stdout = <<>>
    /\ langIdx = 0
    /\ max = 0
    /\ lan_identified = ""
    /\ scored = {}
    /\ result = ""
    /\ total = 0
    /\ calls = 0

\* a call of buildTrigramProfile(text)
InitBuild ==
    /\ text \in TextsOver(Alphabet)
    /\ languages = <<>>
    /\ pc = "build"
    /\ profile = EmptyProfile
    /\ other = EmptyProfile
    /\ n = 0
    /\ InitCommon

NextBuild == BuildSkipLine \/ BuildLine \/ BuildThrow \/ BuildReturn

SpecBuild == InitBuild /\ [][NextBuild]_vars

----------------------------------------------------------------------------
(* normalizeTrigramProfile *)

\* lines 89-94: the sum of the squares of the weights, in map order
RECURSIVE SquareSum(_, _, _)
SquareSum(norma, p, keys) ==
    IF keys = <<>> THEN norma
    ELSE SquareSum(norma + FMul(p[Head(keys)], p[Head(keys)]), p, Tail(keys))

\* the sum of the squares without the square root of line 96
NormaNoSqrt(p) == SquareSum(0, p, SortedKeys(DOMAIN p))

\* line 96: norma = sqrtf(norma)
Norma(p) == FSqrt(SquareSum(0, p, SortedKeys(DOMAIN p)))

\* lines 98-101: every weight is divided by norma
DivideAll(p, norma) == [k \in DOMAIN p |-> FDiv(p[k], norma)]

normalizeTrigramProfile(p) == DivideAll(p, Norma(p))

----------------------------------------------------------------------------
(* getCosineSimilarity *)

\* the product is assigned to the result instead of being added to it
AccumulateAssign(acc, textProfile, languageProfile, tri) ==
    IF tri \in DOMAIN languageProfile
    THEN FMul(languageProfile[tri], textProfile[tri])
    ELSE acc

\* lines 119-123: one iteration of the loop over textProfile
Accumulate(acc, textProfile, languageProfile, tri) ==
    IF tri \in DOMAIN languageProfile
    THEN acc + FMul(languageProfile[tri], textProfile[tri])
    ELSE acc

\* lines 117-124: the loop over the keys of textProfile, in map order
RECURSIVE CosineLoop(_, _, _, _)
CosineLoop(acc, textProfile, languageProfile, keys) ==
    IF keys = <<>> THEN acc
    ELSE CosineLoop(Accumulate(acc, textProfile, languageProfile, Head(keys)),
                    textProfile, languageProfile, Tail(keys))

getCosineSimilarity(textProfile, languageProfile) ==
    CosineLoop(0, textProfile, languageProfile, SortedKeys(DOMAIN textProfile))

----------------------------------------------------------------------------
(* identifyLanguage *)

\* the guard without the test of the profile
NoDataCatalogOnly(p, langs) == langs = <<>>

\* line 139: there is nothing to decide on
NoData(p, langs) == p = EmptyProfile \/ langs = <<>>

\* line 150: the entry is skipped
SkipEntry(lan) == lan.trigramProfile = EmptyProfile

\* the comparison with >= in place of >
BetterOrEqual(score, best) == score >= best

\* line 152: the entry becomes the best one
Better(score, best) == score > best

\* max is left as it was
NewMaxKept(score, best) == best

\* line 154: max = n
NewMax(score, best) == score

IdUnchanged == UNCHANGED <<text, languages, other, profile0, other0, stdout,
                           lineIdx, n, total>>

\* lines 139-142: the guard after buildTrigramProfile returned
IdGuard ==
    /\ pc = "built"
    /\ IF NoData(profile, languages)
       THEN pc' = "done" /\ result' = ""
       ELSE pc' = "normalize" /\ UNCHANGED result
    /\ UNCHANGED <<profile, langIdx, max, lan_identified, scored, calls>>
    /\ IdUnchanged

\* line 143: normalizeTrigramProfile(ref_trig_prof)
IdNormalize ==
    /\ pc = "normalize"
    /\ profile' = normalizeTrigramProfile(profile)
    /\ calls' = calls + 1
    /\ pc' = "scan"
    /\ UNCHANGED <<langIdx, max, lan_identified, scored, result>>
    /\ IdUnchanged

\* line 150: an iteration of the loop of line 148 that ends in the continue
IdSkipEntry ==
    /\ pc = "scan"
    /\ langIdx < Len(languages)
    /\ SkipEntry(languages[langIdx + 1])
    /\ langIdx' = langIdx + 1
    /\ UNCHANGED <<pc, profile, max, lan_identified, scored, result, calls>>
    /\ IdUnchanged

\* lines 151-156: an iteration of the loop of line 148 that scores the entry
IdScoreEntry ==
    /\ pc = "scan"
    /\ langIdx < Len(languages)
    /\ ~SkipEntry(languages[langIdx + 1])
    /\ LET lan == languages[langIdx + 1]
           score == getCosineSimilarity(profile, lan.trigramProfile)
       IN  IF Better(score, max)
           THEN /\ max' = NewMax(score, max)
                /\ lan_identified' = lan.languageCode
           ELSE UNCHANGED <<max, lan_identified>>
    /\ scored' = scored \cup {langIdx + 1}
    /\ langIdx' = langIdx + 1
    /\ UNCHANGED <<pc, profile, result, calls>>
    /\ IdUnchanged

\* line 158: return lan_identified
IdReturn ==
    /\ pc = "scan"
    /\ langIdx = Len(languages)
    /\ result' = lan_identified
    /\ pc' = "done"
    /\ UNCHANGED <<profile, langIdx, max, lan_identified, scored, calls>>
    /\ IdUnchanged

\* the keys the language profiles of the catalogs are made of: "a" U+1F600
\* and U+1F600 "a"
LangKeys == {EncodeLine(<<97, 128512>>), EncodeLine(<<128512, 97>>)}

\* weights of the language profiles: 0.6 and 0.8
LangWeights == {(3 * Scale) \div 5, (4 * Scale) \div 5}

ProfilesOver(K, W) == UNION {[S -> W] : S \in SUBSET K}

LangCodes == <<"en", "fr", "es", "de", "it">>

Catalogs ==
    UNION {[1..m -> ProfilesOver(LangKeys, LangWeights)] : m \in 0..MaxLangs}

\* a call of identifyLanguage(text, languages)
Init ==
    /\ text \in SeqsUpTo(LinesOver(IdAlphabet), IdMaxLines)
    /\ \E c \in Catalogs :
          languages = [i \in 1..Len(c) |->
                          [languageCode |-> LangCodes[i], trigramProfile |-> c[i]]]
    /\ pc = "build"
    /\ profile = EmptyProfile
    /\ other = EmptyProfile
    /\ n = 0
    /\ InitCommon

Next ==
    \/ BuildSkipLine \/ BuildLine \/ BuildThrow \/ BuildReturn
    \/ IdGuard \/ IdNormalize \/ IdSkipEntry \/ IdScoreEntry \/ IdReturn

Spec == Init /\ [][Next]_vars

----------------------------------------------------------------------------
(* normalizeTrigramProfile called on its own, MaxCalls times in a row *)

NormKeys == {EncodeLine(<<97, 97, 97>>), EncodeLine(<<97, 97, 233>>),
             EncodeLine(<<97, 233, 97>>)}

\* counts 0.0, 1.0, ... and the fractions 0.6 and 0.8
NormWeights == {c * One : c \in 0..MaxCount} \cup LangWeights

InitNorm ==
    /\ profile \in ProfilesOver(NormKeys, NormWeights)
    /\ \E k \in DOMAIN profile : profile[k] > 0
    /\ text = <<>>
    /\ languages = <<>>
    /\ pc = "norm"
    /\ other = EmptyProfile
    /\ n = 0
    /\ InitCommon

NormCall ==
    /\ pc = "norm"
    /\ calls < MaxCalls
    /\ profile' = normalizeTrigramProfile(profile)
    /\ calls' = calls + 1
    /\ UNCHANGED <<text, languages, pc, lineIdx, other, profile0, other0, stdout,
                   langIdx, max, lan_identified, scored, result, n, total>>

NextNorm == NormCall

SpecNorm == InitNorm /\ [][NextNorm]_vars

----------------------------------------------------------------------------
(* getCosineSimilarity called on its own *)

CosWeights == {0, One} \cup LangWeights

InitCos ==
    /\ profile \in ProfilesOver(NormKeys, CosWeights)
    /\ other \in ProfilesOver(NormKeys, CosWeights)
    /\ text = <<>>
    /\ languages = <<>>
    /\ pc = "cos"
    /\ n = 0
    /\ InitCommon

CosCall ==
    /\ pc = "cos"
    /\ result' = getCosineSimilarity(profile, other)
    /\ pc' = "done"
    /\ UNCHANGED <<text, languages, lineIdx, profile, other, profile0, other0,
                   stdout, langIdx, max, lan_identified, scored, n, total, calls>>

NextCos == CosCall

SpecCos == InitCos /\ [][NextCos]_vars

----------------------------------------------------------------------------
(* hasLessThanNChars *)

\* line 174: the constant the running total is compared with
Threshold == 3

HasAlphabet == {97, 233}

HasUnchanged ==
    UNCHANGED <<text, languages, profile, other, profile0, other0, stdout,
                langIdx, max, lan_identified, scored, n, calls>>

\* lines 171-176: one iteration of the loop over the lines
HasLine ==
    /\ pc = "has"
    /\ lineIdx < Len(text)
    /\ total' = total + Len(text[lineIdx + 1])
    /\ lineIdx' = lineIdx + 1
    /\ IF total' >= Threshold
       THEN pc' = "done" /\ result' = FALSE
       ELSE UNCHANGED <<pc, result>>
    /\ HasUnchanged

\* line 177: return true
HasReturn ==
    /\ pc = "has"
    /\ lineIdx = Len(text)
    /\ pc' = "done"
    /\ result' = TRUE
    /\ UNCHANGED <<lineIdx, total>>
    /\ HasUnchanged

InitHas ==
    /\ text \in TextsOver(HasAlphabet)
    /\ n \in 0..MaxN
    /\ languages = <<>>
    /\ pc = "has"
    /\ profile = EmptyProfile
    /\ other = EmptyProfile
    /\ InitCommon

NextHas == HasLine \/ HasReturn

SpecHas == InitHas /\ [][NextHas]_vars

----------------------------------------------------------------------------
(* What the properties are stated with *)

\* the code points of a line without its last carriage return
Content(line) ==
    LET cps == Utf8Decode(line) IN
    IF cps # <<>> /\ cps[Len(cps)] = CR THEN SubSeq(cps, 1, Len(cps) - 1) ELSE cps

\* every line has fewer than 3 code points once one trailing CR is removed
AllLinesShort(t) == \A l \in 1..Len(t) : Len(Content(t[l])) < 3

\* the windows of three consecutive code points of the lines of a text
Positions(t) ==
    {pos \in (1..Len(t)) \X (1..MaxLineLen) : pos[2] + 2 <= Len(Content(t[pos[1]]))}

WindowAt(t, pos) == EncodeLine(SubSeq(Content(t[pos[1]]), pos[2], pos[2] + 2))

\* the profile of the occurrence counts of those windows
WindowCounts(t) ==
    [k \in {WindowAt(t, pos) : pos \in Positions(t)} |->
        One * Cardinality({pos \in Positions(t) : WindowAt(t, pos) = k})]

\* the sum of a[t] * b[t] over the trigrams of both profiles
DotProduct(a, b) ==
    LET common == DOMAIN a \cap DOMAIN b IN
    SumOver([k \in common |-> FMul(a[k], b[k])], common)

SumOfSquares(p) == DotProduct(p, p)

\* the catalog entries with a non-empty profile among the first k
NonEmptyEntries(k) ==
    {i \in 1..k : languages[i].trigramProfile # EmptyProfile}

\* the similarity of entry i to the text profile
Score(i) == DotProduct(profile, languages[i].trigramProfile)

\* the entries among the first k that attain the largest similarity
BestEntries(k) ==
    {i \in NonEmptyEntries(k) : \A j \in NonEmptyEntries(k) : Score(j) <= Score(i)}

SetMin(S) == CHOOSE x \in S : \A y \in S : x <= y

Abs(x) == IF x < 0 THEN 0 - x ELSE x

\* what counts as 1 up to rounding: one hundredth
Tolerance == Scale \div 100

----------------------------------------------------------------------------
(* Properties *)

\* C1: when identifyLanguage returns for a text with a non-empty profile, the
\* result is the code of an entry with a non-empty profile whose similarity
\* is the maximum over those entries, if that maximum is greater than 0, and
\* the empty string otherwise.
C1_ReturnsBest ==
    (pc = "done" /\ profile # EmptyProfile) =>
        LET all == NonEmptyEntries(Len(languages)) IN
        IF \E i \in all : Score(i) > 0
        THEN \E i \in BestEntries(Len(languages)) : result = languages[i].languageCode
        ELSE result = ""

\* a later entry won over an earlier one that scored more than 0
C1_Witness ==
    /\ pc = "done" /\ Len(languages) = 2 /\ result = "fr"
    /\ NonEmptyEntries(2) = {1, 2}
    /\ 0 < Score(1) /\ Score(1) < Score(2)

\* C2: while the catalog is scanned and when the call returns, the tracked
\* code is the one of the first visited entry that attains the largest
\* similarity seen so far and max is that similarity, if it is greater than
\* 0; no entry is tracked otherwise.  So among entries with the same maximum
\* the first in catalog order is returned.
C2_FirstWins ==
    (pc \in {"scan", "done"} /\ profile # EmptyProfile) =>
        /\ IF \E i \in NonEmptyEntries(langIdx) : Score(i) > 0
           THEN /\ lan_identified = languages[SetMin(BestEntries(langIdx))].languageCode
                /\ max = Score(SetMin(BestEntries(langIdx)))
           ELSE lan_identified = "" /\ max = 0
        /\ pc = "done" => result = lan_identified

\* two entries tie at the maximum and the first one is returned
C2_Witness ==
    /\ pc = "done" /\ Len(languages) = 2 /\ result = "en"
    /\ languages[1].trigramProfile # languages[2].trigramProfile
    /\ BestEntries(2) = {1, 2}
    /\ Score(1) > 0

\* C3: with an empty text, an empty profile built from the text or an empty
\* catalog, identifyLanguage raises nothing, scores no entry and returns "".
C3_EmptyInput ==
    (\/ text = <<>>
     \/ languages = <<>>
     \/ (pc \in {"built", "done"} /\ profile = EmptyProfile)) =>
        /\ pc # "threw"
        /\ scored = {}
        /\ pc = "done" => result = ""

\* C4: for a text all of whose lines have fewer than 3 code points after the
\* removal of one trailing CR, the profile stays empty, nothing is raised and
\* identifyLanguage returns "".
C4_ShortText ==
    AllLinesShort(text) =>
        /\ profile = EmptyProfile
        /\ pc # "threw"
        /\ pc = "done" => result = ""

\* C5: buildTrigramProfile returns, and what it returns maps exactly the
\* windows of three consecutive code points of the lines (each line without
\* its last CR) to their numbers of occurrences.
C5_WindowCounts ==
    /\ pc # "threw"
    /\ pc = "built" => profile = WindowCounts(text)

\* C6: no step of buildTrigramProfile changes the input text or writes to an
\* output channel.
C6_NoSideEffect == [][text' = text /\ stdout' = stdout]_vars

\* C7: whenever identifyLanguage is about to normalize, the profile has a key
\* of weight at least 1 and the divisor is greater than 0.
C7_NormalizeNonEmpty ==
    pc = "normalize" =>
        /\ \E k \in DOMAIN profile : profile[k] >= One
        /\ Norma(profile) > 0

\* normalization is reached with a profile of two keys
C7_Witness == pc = "normalize" /\ Cardinality(DOMAIN profile) = 2

\* C8: getCosineSimilarity returns the sum of the products of the weights of
\* the trigrams of both profiles, 0 when there is none, and leaves both
\* profiles as they were.
C8_SparseDot ==
    pc = "done" =>
        /\ result = DotProduct(profile0, other0)
        /\ (DOMAIN profile0 \cap DOMAIN other0 = {} => result = 0)
        /\ profile = profile0
        /\ other = other0

\* two common trigrams contribute, and the first profile has one of its own
C8_Witness ==
    /\ pc = "done" /\ result > 0
    /\ Cardinality(DOMAIN profile0 \cap DOMAIN other0) = 2
    /\ \A k \in DOMAIN profile0 \cap DOMAIN other0 : FMul(profile0[k], other0[k]) > 0
    /\ DOMAIN profile0 \ DOMAIN other0 # {}

\* C9: hasLessThanNChars(text, n) returns true exactly if the lines of the text
\* have fewer than n characters in total.
C9_LessThanN ==
    pc = "done" => (result = (Len(Flatten(text)) < n))

\* C10 as stated: after normalizeTrigramProfile the squared weights sum to 1.
C10_ExactlyOne == calls >= 1 => SumOfSquares(profile) = One

\* C10: after one or more calls of normalizeTrigramProfile on a profile with a
\* positive weight the key set is the original one, no weight is negative, a
\* zero weight is still zero, the order of the weights is the original one,
\* their ratios are the original ones up to one rounding per call, and the
\* squared weights sum to 1 within the rounding tolerance.
C10_UnitWithinTolerance ==
    calls >= 1 =>
        /\ DOMAIN profile = DOMAIN profile0
        /\ \A k \in DOMAIN profile :
              /\ profile[k] >= 0
              /\ profile0[k] = 0 => profile[k] = 0
        /\ \A j, k \in DOMAIN profile :
              /\ profile0[j] <= profile0[k] => profile[j] <= profile[k]
              /\ Abs(profile[j] * profile0[k] - profile[k] * profile0[j])
                    <= calls * (profile0[j] + profile0[k])
        /\ Abs(SumOfSquares(profile) - One) <= Tolerance

\* a profile of three different weights has been normalized twice
C10_Witness ==
    /\ calls = 2
    /\ Cardinality({profile0[k] : k \in DOMAIN profile0}) = 3
    /\ SumOfSquares(profile) # One

====
